---- MODULE Spec2Model ----
(***************************************************************************)
(* A model of src/main.rs of huggingface-rs: the command-line mirror tool  *)
(* that validates its arguments, clones a repository's metadata with git,  *)
(* lists the LFS assets and downloads every asset concurrently, one tokio  *)
(* task per asset, through a proxy-rewritten URL.                          *)
(*                                                                         *)
(* Strings are sequences of tokens.  The separators "/", "-", " ", "*" and *)
(* the line break are tokens of their own, a scheme with its colon         *)
(* ("https:") is one token, and every other token is a non-empty run of    *)
(* characters holding none of the separators; no two such runs are         *)
(* adjacent.  Two strings are then equal exactly when their token          *)
(* sequences are equal.  The inputs hold no "?", "#", "%", "\", "." or     *)
(* ".." path segments, no port and no user info, so the part of URL        *)
(* parsing those drive is outside the model.                               *)
(***************************************************************************)
EXTENDS Integers, Sequences, FiniteSets, TLC

\* ------------------------------------------------------------------ bounds

\* The longest asset listing `git lfs ls-files` prints.
MaxAssets == 2
\* The most body chunks one response stream yields.
MaxChunks == 2

\* ------------------------------------------------------- program constants

DEFAULT_ENDPOINT == <<"https:", "/", "/", "hf", "-", "mirror.com", "/">>
DEFAULT_PROXY == <<"https:", "/", "/", "hg.whl.moe", "/">>
ORIGIN_ENDPOINT == <<"https:", "/", "/", "huggingface.co", "/">>

\* Option<T> is a sequence of at most one value: None is the empty one.
\* A variable main has not assigned yet holds None.
None == <<>>

Some(x) == <<x>>

\* Option::unwrap_or.
UnwrapOr(o, d) == IF o = None THEN d ELSE o[1]

\* --------------------------------------------------------- string helpers

\* str::ends_with(t) for a one-token pattern t.
EndsWith(s, t) == Len(s) > 0 /\ s[Len(s)] = t

\* str::starts_with(t) for a one-token pattern t.
StartsWith(s, t) == Len(s) > 0 /\ s[1] = t

\* The index of the first token t of s, 0 when s holds none (str::find).
RECURSIVE FindFrom(_, _, _)
FindFrom(s, t, i) ==
    IF i > Len(s) THEN 0
    ELSE IF s[i] = t THEN i
    ELSE FindFrom(s, t, i + 1)

Find(s, t) == FindFrom(s, t, 1)

\* The index of the last token t of s, 0 when s holds none (str::rfind).
RECURSIVE RFindFrom(_, _, _)
RFindFrom(s, t, i) ==
    IF i < 1 THEN 0
    ELSE IF s[i] = t THEN i
    ELSE RFindFrom(s, t, i - 1)

RFind(s, t) == RFindFrom(s, t, Len(s))

\* str::split(sep).collect(): the pieces between the separators, empty
\* pieces kept, always at least one piece.
RECURSIVE Split(_, _)
Split(s, sep) ==
    LET k == Find(s, sep)
    IN  IF k = 0 THEN <<s>>
        ELSE <<SubSeq(s, 1, k - 1)>> \o Split(SubSeq(s, k + 1, Len(s)), sep)

\* str::split_once(sep): None, or the parts before and after the first sep.
SplitOnce(s, sep) ==
    LET k == Find(s, sep)
    IN  IF k = 0 THEN None
        ELSE Some(<<SubSeq(s, 1, k - 1), SubSeq(s, k + 1, Len(s))>>)

\* str::trim(): the white space at both ends removed.
RECURSIVE TrimStart(_)
TrimStart(s) ==
    IF Len(s) > 0 /\ s[1] = " " THEN TrimStart(Tail(s)) ELSE s

RECURSIVE TrimEnd(_)
TrimEnd(s) ==
    IF Len(s) > 0 /\ s[Len(s)] = " " THEN TrimEnd(SubSeq(s, 1, Len(s) - 1)) ELSE s

Trim(s) == TrimEnd(TrimStart(s))

\* str::strip_prefix(t): None when s does not start with t.
StripPrefix(s, t) == IF StartsWith(s, t) THEN Some(Tail(s)) ELSE None

\* str::strip_suffix(t): None when s does not end with t.
StripSuffix(s, t) == IF EndsWith(s, t) THEN Some(SubSeq(s, 1, Len(s) - 1)) ELSE None

\* str::lines(): the text cut at the line breaks, a final line break
\* starting no further line.
StrLines(s) ==
    IF s = <<>> THEN <<>>
    ELSE LET parts == Split(s, "\n")
         IN  IF parts[Len(parts)] = <<>>
             THEN SubSeq(parts, 1, Len(parts) - 1)
             ELSE parts

\* The concatenation of a sequence of strings (also of byte chunks).
RECURSIVE Concat(_)
Concat(ss) == IF ss = <<>> THEN <<>> ELSE Head(ss) \o Concat(Tail(ss))

\* ------------------------------------------------------------ reqwest::Url

Schemes == {"https:", "http:"}

\* A path's white space is percent-encoded by the parser.
PercentEncode(s) == [k \in 1..Len(s) |-> IF s[k] = " " THEN "%20" ELSE s[k]]

\* Url::parse on an absolute URL string: a scheme, "//", a non-empty host
\* with no white space, then the path, "/" when the string gives none.
UrlParse(s) ==
    IF ~(Len(s) >= 3 /\ s[1] \in Schemes /\ s[2] = "/" /\ s[3] = "/")
    THEN [ok |-> FALSE, err |-> "RelativeUrlWithoutBase"]
    ELSE LET rest == SubSeq(s, 4, Len(s))
             k == Find(rest, "/")
             host == IF k = 0 THEN rest ELSE SubSeq(rest, 1, k - 1)
             path == IF k = 0 THEN <<"/">> ELSE SubSeq(rest, k, Len(rest))
         IN  IF host = <<>> THEN [ok |-> FALSE, err |-> "EmptyHost"]
             ELSE IF Find(host, " ") # 0
             THEN [ok |-> FALSE, err |-> "InvalidDomainCharacter"]
             ELSE [ok |-> TRUE, scheme |-> s[1], host |-> host,
                   path |-> PercentEncode(path)]

\* Url::to_string.
UrlToString(u) == <<u.scheme, "/", "/">> \o u.host \o u.path

\* Url::path.
UrlPath(u) == u.path

\* Url::join on a reference without a scheme: "//..." names a new host,
\* "/..." a new path, anything else replaces what follows the base path's
\* last "/".
UrlJoin(u, rel) ==
    IF Len(rel) >= 2 /\ rel[1] = "/" /\ rel[2] = "/"
    THEN UrlParse(<<u.scheme>> \o rel)
    ELSE IF StartsWith(rel, "/")
    THEN [u EXCEPT !.path = PercentEncode(rel)]
    ELSE [u EXCEPT !.path = SubSeq(u.path, 1, RFind(u.path, "/")) \o PercentEncode(rel)]

\* ------------------------------------------------------- std::path::PathBuf

\* PathBuf::join: an absolute argument replaces the path, a relative one is
\* appended after a separator.
PathJoin(p, q) ==
    IF StartsWith(q, "/") THEN q
    ELSE IF p = <<>> \/ EndsWith(p, "/") THEN p \o q
    ELSE p \o <<"/">> \o q

\* std::env::current_dir().
CurrentDir == <<"/", "work">>


\* ------------------------------------------------------------------- state

VARIABLES
    cli,        \* struct Cli as Cli::parse() read it from the command line
    pc,         \* where main stands, or how the process ended
    endpoint,   \* check_args' endpoint_url: Some(Url), None before it is set
    proxy,      \* check_args' proxy_url
    file_path,  \* check_args' file_path, "author/item"
    save_path,  \* check_args' save_path
    probes,     \* the HTTP probes answered so far: the URL and the status
    cmds,       \* the external commands run so far
    worktree,   \* the LFS-tracked files of the cloned repository, in index order
    lfs_vec,    \* the lines of `git lfs ls-files`
    tasks,      \* the spawned download tasks, in spawn order
    join_idx,   \* how many JoinHandles the join loop has awaited
    fs,         \* the files under save_path: path |-> bytes
    bars        \* the displays of the shared MultiProgress, in add order

vars == <<cli, pc, endpoint, proxy, file_path, save_path, probes, cmds,
          worktree, lfs_vec, tasks, join_idx, fs, bars>>

\* What check_args returns, or how it ends the process.
checkVars == <<endpoint, proxy, file_path>>

\* What the downloads work on.
downloadVars == <<tasks, join_idx, fs, bars>>

\* ------------------------------------------------------------ the inputs

\* "google/gemma-2-2b-it", the help text's example.
RepoGemma == <<"google", "/", "gemma", "-", "2", "-", "2b", "-", "it">>
\* An identifier without a "/".
RepoNoSlash == <<"gemma">>
\* The single "/": both parts empty.
RepoOnlySlash == <<"/">>
\* "google/": no name after the "/".
RepoNoItem == <<"google", "/">>
\* "/gemma": no author before the "/".
RepoNoAuthor == <<"/", "gemma">>
\* "google/gemma/extra": more than one "/".
RepoThreeParts == <<"google", "/", "gemma", "/", "extra">>

\* A string that is no URL.
NotAUrl == <<"not", " ", "a", " ", "url">>
\* Bases with a path of their own.
MirrorWithPath == <<"https:", "/", "/", "m.io", "/", "hf">>
ProxyWithPath == <<"https:", "/", "/", "p.io", "/", "x">>

\* s without its last token.
DropLast(s) == SubSeq(s, 1, Len(s) - 1)

MkCli(r, e, p) == [repo_id |-> r, local_dir |-> None, endpoint_url |-> e, proxy_url |-> p]

\* The command lines of the download runs: the defaults, and one malformed
\* value of each of the three inputs check_args validates.
DownloadClis ==
    { MkCli(RepoGemma, None, None),
      MkCli(RepoNoSlash, None, None),
      MkCli(RepoGemma, Some(NotAUrl), None),
      MkCli(RepoGemma, None, Some(NotAUrl)) }

\* The command lines the URL resolver is tried on: every base with and
\* without its trailing "/".
ResolverEndpoints ==
    { None, Some(DEFAULT_ENDPOINT), Some(DropLast(DEFAULT_ENDPOINT)),
      Some(MirrorWithPath), Some(MirrorWithPath \o <<"/">>), Some(NotAUrl) }

ResolverProxies ==
    { None, Some(DEFAULT_PROXY), Some(DropLast(DEFAULT_PROXY)),
      Some(ProxyWithPath), Some(ProxyWithPath \o <<"/">>), Some(NotAUrl) }

ResolverClis ==
    { MkCli(r, e, p) : r \in {RepoGemma, <<" ">> \o RepoGemma, RepoNoSlash, RepoOnlySlash,
                               RepoNoItem, RepoNoAuthor, RepoThreeParts},
                       e \in ResolverEndpoints, p \in ResolverProxies }

\* The status codes a server answers with.
StatusCodes == {200, 404}

\* StatusCode::is_success.
IsSuccess(s) == s >= 200 /\ s < 300

\* ------------------------------------------------------------- check_args

\* WithTrailingSlash with a fault: the base is taken as it was given.
AsGiven(s) == s

\* A base URL with the trailing "/" check_args appends when it is absent.
WithTrailingSlash(s) == IF EndsWith(s, "/") THEN s ELSE s \o <<"/">>

\* CheckArgsParse with a fault: a proxy that does not parse is replaced by
\* the default instead of ending the run.
CheckArgsParseDefaultsProxy(c) ==
    LET splits == Split(Trim(c.repo_id), "/")
    IN  IF Len(splits) < 2 THEN [kind |-> "usage", what |-> "repo_id"]
        ELSE
        LET author == splits[1]
            item == splits[2]
            fp == author \o <<"/">> \o item
            e == UrlParse(WithTrailingSlash(UnwrapOr(c.endpoint_url, DEFAULT_ENDPOINT)))
            p == UrlParse(WithTrailingSlash(UnwrapOr(c.proxy_url, DEFAULT_PROXY)))
        IN  IF ~e.ok THEN [kind |-> "usage", what |-> "endpoint_url"]
            ELSE LET j == UrlJoin(e, fp \o <<"/">>)
                 IN  IF ~j.ok THEN [kind |-> "err", what |-> "join"]
                     ELSE [kind |-> "ok", endpoint_url |-> j,
                           proxy_url |-> IF p.ok THEN p ELSE UrlParse(DEFAULT_PROXY),
                           file_path |-> fp, item |-> item]

\* check_args up to its first await: the identifier is split at "/", both
\* bases are normalised and parsed, the endpoint is joined with
\* "author/item/".  kind is "ok", "usage" (cmd.error(..).exit()) or "err"
\* (the ? on Url::join).
CheckArgsParse(c) ==
    LET splits == Split(Trim(c.repo_id), "/")
    IN  IF Len(splits) < 2 THEN [kind |-> "usage", what |-> "repo_id"]
        ELSE
        LET author == splits[1]
            item == splits[2]
            fp == author \o <<"/">> \o item
            e == UrlParse(WithTrailingSlash(UnwrapOr(c.endpoint_url, DEFAULT_ENDPOINT)))
            p == UrlParse(WithTrailingSlash(UnwrapOr(c.proxy_url, DEFAULT_PROXY)))
        IN  IF ~e.ok THEN [kind |-> "usage", what |-> "endpoint_url"]
            ELSE LET j == UrlJoin(e, fp \o <<"/">>)
                 IN  IF ~j.ok THEN [kind |-> "err", what |-> "join"]
                     ELSE IF ~p.ok THEN [kind |-> "usage", what |-> "proxy_url"]
                     ELSE [kind |-> "ok", endpoint_url |-> j, proxy_url |-> p,
                           file_path |-> fp, item |-> item]

\* main calls check_args, which validates the three inputs.
CheckArgs ==
    /\ pc = "check_args"
    /\ LET r == CheckArgsParse(cli)
       IN  IF r.kind = "ok"
           THEN /\ endpoint' = Some(r.endpoint_url)
                /\ proxy' = Some(r.proxy_url)
                /\ file_path' = Some(r.file_path)
                /\ pc' = "probe_endpoint"
           ELSE /\ pc' = IF r.kind = "usage" THEN "exit_usage" ELSE "exit_err"
                /\ UNCHANGED checkVars
    /\ UNCHANGED <<cli, save_path, probes, cmds, worktree, lfs_vec, downloadVars>>

\* What a GET ends with: a transport error (Err) or a response with its
\* status.
GetOutcomes ==
    {[ok |-> FALSE, status |-> 0]} \cup {[ok |-> TRUE, status |-> s] : s \in StatusCodes}

\* check_args probes the endpoint: its ? returns a transport error, a status
\* outside 2xx exits.
ProbeEndpoint ==
    /\ pc = "probe_endpoint"
    /\ \E o \in GetOutcomes :
        /\ probes' = Append(probes, [url |-> UrlToString(endpoint[1]), outcome |-> o])
        /\ pc' = IF ~o.ok THEN "exit_err"
                 ELSE IF IsSuccess(o.status) THEN "probe_proxy" ELSE "exit_usage"
    /\ UNCHANGED <<cli, checkVars, save_path, cmds, worktree, lfs_vec, downloadVars>>

\* check_args probes the proxy, then sets save_path and creates the
\* directory when it is missing; a directory it cannot create exits.
ProbeProxy ==
    /\ pc = "probe_proxy"
    /\ \E o \in GetOutcomes, dir_ok \in BOOLEAN :
        /\ probes' = Append(probes, [url |-> UrlToString(proxy[1]), outcome |-> o])
        /\ IF ~o.ok THEN pc' = "exit_err" /\ UNCHANGED save_path
           ELSE IF ~IsSuccess(o.status) THEN pc' = "exit_usage" /\ UNCHANGED save_path
           ELSE /\ save_path' = Some(PathJoin(UnwrapOr(cli.local_dir, CurrentDir),
                                              CheckArgsParse(cli).item))
                /\ pc' = IF dir_ok THEN "which_git" ELSE "exit_usage"
    /\ UNCHANGED <<cli, checkVars, cmds, worktree, lfs_vec, downloadVars>>


\* -------------------------------------------------- main, up to the listing

\* How running an external command ends: it could not be started, or it ran
\* and exited with whatever status.
CmdOutcomes == {"spawn_err", "exited"}

\* check_command_exists("git"): the expect panics when `which` cannot be
\* started; main drops the bool it returns.
CheckGit ==
    /\ pc = "which_git"
    /\ \E o \in CmdOutcomes :
        /\ cmds' = Append(cmds, <<"which", "git">>)
        /\ pc' = IF o = "spawn_err" THEN "panic_which" ELSE "which_lfs"
    /\ UNCHANGED <<cli, checkVars, save_path, probes, worktree, lfs_vec, downloadVars>>

\* check_command_exists("git-lfs").
CheckGitLfs ==
    /\ pc = "which_lfs"
    /\ \E o \in CmdOutcomes :
        /\ cmds' = Append(cmds, <<"which", "git-lfs">>)
        /\ pc' = IF o = "spawn_err" THEN "panic_which" ELSE "authority"
    /\ UNCHANGED <<cli, checkVars, save_path, probes, worktree, lfs_vec, downloadVars>>

\* The reference check_repo_authority joins to the endpoint.
InfoRefs == <<"info", "/", "refs?service=git", "-", "upload", "-", "pack">>

\* check_repo_authority: the expect inside panics on a transport error;
\* main's expect sees Ok(bool) for every status and drops the bool.
CheckRepoAuthority ==
    /\ pc = "authority"
    /\ \E o \in GetOutcomes :
        /\ probes' = Append(probes, [url |-> UrlToString(UrlJoin(endpoint[1], InfoRefs)),
                                     outcome |-> o])
        /\ pc' = IF ~o.ok THEN "panic_authority" ELSE "git_sync"
    /\ UNCHANGED <<cli, checkVars, save_path, cmds, worktree, lfs_vec, downloadVars>>

\* The LFS-tracked files a repository may hold, in the order of git's index
\* (sorted by path).  A file is a pointer after a clone with
\* GIT_LFS_SKIP_SMUDGE, or holds its object (smudged) once a run has
\* replaced it.
AssetNames ==
    << <<"00001.safetensors">>, <<"c.bin">>, <<"model", "-", "00001.safetensors">> >>

\* The bytes of a pointer file and of a replaced one.
PointerBytes == <<7>>
ObjectBytes == <<8, 9>>

\* The worktrees with at most n tracked files chosen among names k.. of
\* the index.  The first name is always a pointer: c.bin stands for the
\* smudged files whose name holds no "-".
RECURSIVE WorktreesFrom(_, _)
WorktreesFrom(k, n) ==
    IF n = 0 \/ k > Len(AssetNames) THEN {<<>>}
    ELSE WorktreesFrom(k + 1, n)
         \cup { <<[name |-> AssetNames[k], smudged |-> sm]>> \o w :
                    sm \in IF k = 1 THEN {FALSE} ELSE BOOLEAN,
                    w \in WorktreesFrom(k + 1, n - 1) }

Worktrees == WorktreesFrom(1, MaxAssets)

\* The files of a worktree under the directory dir.
WorktreeFiles(dir, w) ==
    [q \in {PathJoin(dir, w[k].name) : k \in 1..Len(w)} |->
        LET k == CHOOSE k \in 1..Len(w) : PathJoin(dir, w[k].name) = q
        IN  IF w[k].smudged THEN ObjectBytes ELSE PointerBytes]

\* How git clone / git pull ends for main: it could not be started (the
\* expect panics), its stderr is no UTF-8 (the ? returns), or it ran; the
\* exit status is not read.
GitOutcomes == {"spawn_err", "bad_utf8", "exited"}

\* git pull when save_path/.git exists, git clone otherwise: either way
\* Command::new("git"), logged by its program name alone.  The worktree it
\* leaves is the environment's choice (empty when git failed).
GitSync ==
    /\ pc = "git_sync"
    /\ \E o \in GitOutcomes, w \in Worktrees :
        /\ cmds' = Append(cmds, <<"git">>)
        /\ IF o = "exited"
           THEN /\ worktree' = w
                /\ fs' = WorktreeFiles(save_path[1], w)
                /\ pc' = "lfs_ls"
           ELSE /\ pc' = IF o = "spawn_err" THEN "panic_git" ELSE "exit_err"
                /\ UNCHANGED <<worktree, fs>>
    /\ UNCHANGED <<cli, checkVars, save_path, probes, lfs_vec, tasks, join_idx, bars>>

\* An object id as `git lfs ls-files` abbreviates it: hexadecimal digits.
Oid == "4d7a214614"

\* One line of `git lfs ls-files`: the id, "-" for a pointer or "*" for a
\* smudged file, the path.
LfsLine(f) == <<Oid, " ", IF f.smudged THEN "*" ELSE "-", " ">> \o f.name

\* The standard output of `git lfs ls-files` in a worktree.
LfsStdout(w) == Concat([k \in 1..Len(w) |-> LfsLine(w[k]) \o <<"\n">>])

\* How `git lfs ls-files` ends for main: the ? returns when it cannot be
\* started, the expect panics on a stdout that is no UTF-8.
LfsOutcomes == {"spawn_err", "bad_utf8", "exited"}

\* main lists the LFS files and cuts the output into lines.
LfsList ==
    /\ pc = "lfs_ls"
    /\ \E o \in LfsOutcomes :
        /\ cmds' = Append(cmds, <<"git", "lfs", "ls-files">>)
        /\ IF o = "exited"
           THEN /\ lfs_vec' = StrLines(LfsStdout(worktree))
                /\ pc' = IF worktree = <<>> THEN "join" ELSE "spawn"
           ELSE /\ pc' = IF o = "spawn_err" THEN "exit_err" ELSE "panic_lfs"
                /\ UNCHANGED lfs_vec
    /\ UNCHANGED <<cli, checkVars, save_path, probes, worktree, downloadVars>>


\* ------------------------------------------------------ main, the fan-out

\* FetchUrl with a fault: the origin is written as its host alone,
\* "huggingface.co/".
FetchUrlHostOnly(proxy_url, endpoint_url, file_name) ==
    LET a == StripPrefix(UrlPath(endpoint_url), "/")
        b == IF a = None THEN None ELSE StripSuffix(a[1], "/")
    IN  IF b = None THEN None
        ELSE Some(UrlToString(proxy_url) \o SubSeq(ORIGIN_ENDPOINT, 4, Len(ORIGIN_ENDPOINT))
                  \o b[1] \o <<"/", "resolve", "/", "main", "/">> \o file_name)

\* The format! of main's closure: the proxy, the origin, the endpoint's
\* path without its first and last "/", "/resolve/main/" and the file name.
\* None when one of the two unwraps panics.
FetchUrl(proxy_url, endpoint_url, file_name) ==
    LET a == StripPrefix(UrlPath(endpoint_url), "/")
        b == IF a = None THEN None ELSE StripSuffix(a[1], "/")
    IN  IF b = None THEN None
        ELSE Some(UrlToString(proxy_url) \o ORIGIN_ENDPOINT \o b[1]
                  \o <<"/", "resolve", "/", "main", "/">> \o file_name)

\* The file name main reads from a line of the listing: what follows the
\* first "-", trimmed.  None when the line holds no "-" (the expect panics).
LineFileName(line) ==
    LET so == SplitOnce(line, "-")
    IN  IF so = None THEN None ELSE Some(Trim(so[1][2]))

\* A task as tokio::spawn leaves it: nothing of download_files has run.
NewTask(i, url, path) ==
    [index |-> i, url |-> url, path |-> path, st |-> "create",
     status |-> None, recv |-> <<>>, off |-> 0]

\* Spawn with a fault: main goes to the join loop after every spawn, so a
\* task is awaited before the next one is started.
SpawnThenAwait ==
    /\ pc = "spawn"
    /\ LET i == Len(tasks)
           name == LineFileName(lfs_vec[i + 1])
           url == IF name = None THEN None
                  ELSE FetchUrl(proxy[1], endpoint[1], name[1])
       IN  IF url = None
           THEN pc' = "panic_spawn" /\ UNCHANGED tasks
           ELSE /\ tasks' = Append(tasks, NewTask(i, url[1], PathJoin(save_path[1], name[1])))
                /\ pc' = "join"
    /\ UNCHANGED <<cli, checkVars, save_path, probes, cmds, worktree, lfs_vec,
                   join_idx, fs, bars>>

\* One turn of the map closure: the next line is parsed, the URL is built
\* and the task is spawned.  After the last line collect() is done and main
\* goes on to the join loop.
Spawn ==
    /\ pc = "spawn"
    /\ LET i == Len(tasks)
           name == LineFileName(lfs_vec[i + 1])
           url == IF name = None THEN None
                  ELSE FetchUrl(proxy[1], endpoint[1], name[1])
       IN  IF url = None
           THEN pc' = "panic_spawn" /\ UNCHANGED tasks
           ELSE /\ tasks' = Append(tasks, NewTask(i, url[1], PathJoin(save_path[1], name[1])))
                /\ pc' = IF i + 1 = Len(lfs_vec) THEN "join" ELSE "spawn"
    /\ UNCHANGED <<cli, checkVars, save_path, probes, cmds, worktree, lfs_vec,
                   join_idx, fs, bars>>

\* The states of a task that has not ended; "hung" is a task suspended on a
\* connection that will never answer.
Running == {"create", "get", "stream", "hung"}
\* download_files returned Ok: the closure returns, the JoinHandle is Ok.
Succeeded == {"done", "skipped"}
\* download_files returned Err: the closure's expect panics, the JoinHandle
\* is Err(JoinError).
Failed == {"create_err", "get_err", "stream_err", "write_err", "flush_err"}
\* Every state a task ends in by itself.
Terminal == Succeeded \cup Failed

\* The ways the process ends by a panic of main.
PanicStates == {"panic_which", "panic_authority", "panic_git", "panic_lfs",
                "panic_spawn", "panic_join"}
\* The ways the process ends.
ExitStates == {"done", "exit_usage", "exit_err"} \cup PanicStates

\* Join with a fault: main waits for a completion that only a task that
\* returned Ok signals, so the handle of a failed task never resolves.
JoinWaitsForOk ==
    /\ pc = "join"
    /\ join_idx < Len(tasks)
    /\ tasks[join_idx + 1].st \in Succeeded
    /\ join_idx' = join_idx + 1
    /\ pc' = pc
    /\ UNCHANGED <<cli, checkVars, save_path, probes, cmds, worktree, lfs_vec,
                   tasks, fs, bars>>

\* Join with a fault: on a failed handle main empties every file of the
\* run before it panics.
JoinRollsBack ==
    /\ pc = "join"
    /\ join_idx < Len(tasks)
    /\ LET t == tasks[join_idx + 1]
       IN  /\ t.st \in Terminal
           /\ IF t.st \in Succeeded
              THEN join_idx' = join_idx + 1 /\ pc' = pc /\ UNCHANGED fs
              ELSE /\ pc' = "panic_join"
                   /\ fs' = [q \in DOMAIN fs |-> <<>>]
                   /\ UNCHANGED join_idx
    /\ UNCHANGED <<cli, checkVars, save_path, probes, cmds, worktree, lfs_vec,
                   tasks, bars>>

\* One turn of the join loop: task.await.unwrap() on the next handle, in
\* spawn order.  It goes on when the task succeeded and panics when the
\* task panicked.
Join ==
    /\ pc = "join"
    /\ join_idx < Len(tasks)
    /\ LET t == tasks[join_idx + 1]
       IN  /\ t.st \in Terminal
           /\ IF t.st \in Succeeded
              THEN join_idx' = join_idx + 1 /\ pc' = pc
              ELSE pc' = "panic_join" /\ UNCHANGED join_idx
    /\ UNCHANGED <<cli, checkVars, save_path, probes, cmds, worktree, lfs_vec,
                   tasks, fs, bars>>

\* The join loop is over: main returns Ok(()).
Return ==
    /\ pc = "join"
    /\ join_idx = Len(tasks)
    /\ pc' = "done"
    /\ UNCHANGED <<cli, checkVars, save_path, probes, cmds, worktree, lfs_vec,
                   downloadVars>>

\* --------------------------------------------------------- download_files

mainVars == <<cli, pc, endpoint, proxy, file_path, save_path, probes, cmds,
              worktree, lfs_vec, join_idx>>

\* FileCreate with a fault: a file that exists is opened as it is, without
\* truncation.
FileCreateKeepsContent(i) ==
    /\ tasks[i].st = "create"
    /\ \E ok \in BOOLEAN :
        IF ok
        THEN /\ fs' = [q \in DOMAIN fs \cup {tasks[i].path} |->
                          IF q \in DOMAIN fs THEN fs[q] ELSE <<>>]
             /\ tasks' = [tasks EXCEPT ![i].st = "get"]
        ELSE /\ tasks' = [tasks EXCEPT ![i].st = "create_err"]
             /\ UNCHANGED fs
    /\ UNCHANGED <<mainVars, bars>>

\* tokio::fs::File::create: the file is created, or truncated when it
\* exists; the ? returns when it cannot be.
FileCreate(i) ==
    /\ tasks[i].st = "create"
    /\ \E ok \in BOOLEAN :
        IF ok
        THEN /\ fs' = [q \in DOMAIN fs \cup {tasks[i].path} |->
                          IF q = tasks[i].path THEN <<>> ELSE fs[q]]
             /\ tasks' = [tasks EXCEPT ![i].st = "get"]
        ELSE /\ tasks' = [tasks EXCEPT ![i].st = "create_err"]
             /\ UNCHANGED fs
    /\ UNCHANGED <<mainVars, bars>>

\* The default of content_length().unwrap_or.
DefaultTotalBytes == 10485760

\* The content-length header of the response for the asset of a given
\* index: the server sizes every second asset and streams the others
\* without the header.
ContentLength(index) == IF index % 2 = 0 THEN None ELSE Some(3)

\* HttpGet with a fault: a status outside 2xx is returned as an error
\* instead of Ok(()).
HttpGetFailsOnStatus(i) ==
    /\ tasks[i].st = "get"
    /\ \E o \in GetOutcomes :
        IF ~o.ok
        THEN tasks' = [tasks EXCEPT ![i].st = "get_err"] /\ UNCHANGED bars
        ELSE IF ~IsSuccess(o.status)
        THEN /\ tasks' = [tasks EXCEPT ![i].st = "get_err", ![i].status = Some(o.status)]
             /\ UNCHANGED bars
        ELSE /\ tasks' = [tasks EXCEPT ![i].st = "stream", ![i].status = Some(o.status)]
             /\ bars' = Append(bars, [task |-> tasks[i].index,
                                      len |-> UnwrapOr(ContentLength(tasks[i].index),
                                                      DefaultTotalBytes),
                                      pos |-> 0])
    /\ UNCHANGED <<mainVars, fs>>

\* HttpGet with a fault: the progress bar is added before the status is
\* checked, so a skipped asset has one too.
HttpGetAddsBarFirst(i) ==
    /\ tasks[i].st = "get"
    /\ \E o \in GetOutcomes :
        IF ~o.ok
        THEN tasks' = [tasks EXCEPT ![i].st = "get_err"] /\ UNCHANGED bars
        ELSE /\ tasks' = [tasks EXCEPT ![i].st = IF IsSuccess(o.status)
                                                 THEN "stream" ELSE "skipped",
                                       ![i].status = Some(o.status)]
             /\ bars' = Append(bars, [task |-> tasks[i].index,
                                      len |-> UnwrapOr(ContentLength(tasks[i].index),
                                                      DefaultTotalBytes),
                                      pos |-> 0])
    /\ UNCHANGED <<mainVars, fs>>

\* get(url).await?, the status check and, for a 2xx status, the progress
\* bar added to the shared MultiProgress.
HttpGet(i) ==
    /\ tasks[i].st = "get"
    /\ \E o \in GetOutcomes :
        IF ~o.ok
        THEN tasks' = [tasks EXCEPT ![i].st = "get_err"] /\ UNCHANGED bars
        ELSE IF ~IsSuccess(o.status)
        THEN /\ tasks' = [tasks EXCEPT ![i].st = "skipped", ![i].status = Some(o.status)]
             /\ UNCHANGED bars
        ELSE /\ tasks' = [tasks EXCEPT ![i].st = "stream", ![i].status = Some(o.status)]
             /\ bars' = Append(bars, [task |-> tasks[i].index,
                                      len |-> UnwrapOr(ContentLength(tasks[i].index),
                                                      DefaultTotalBytes),
                                      pos |-> 0])
    /\ UNCHANGED <<mainVars, fs>>

\* The k-th chunk a body stream yields: the chunks differ from one another
\* in their bytes and in their lengths.
ChunkAt(k) == IF k % 2 = 1 THEN <<k>> ELSE <<k, k>>

\* A write of bytes at offset off of a file: a file shorter than off is
\* filled with zeros up to it.
WriteAt(content, off, bytes) ==
    LET padded == IF Len(content) < off
                  THEN content \o [k \in 1..(off - Len(content)) |-> 0]
                  ELSE content
    IN  SubSeq(padded, 1, off) \o bytes
        \o SubSeq(padded, off + Len(bytes) + 1, Len(padded))

\* BarInc with a fault: the bar counts the chunks, not their bytes.
BarIncPerChunk(bs, index, n) ==
    [k \in 1..Len(bs) |-> IF bs[k].task = index
                          THEN [bs[k] EXCEPT !.pos = @ + 1] ELSE bs[k]]

\* ProgressBar::inc on the bar the task added.
BarInc(bs, index, n) ==
    [k \in 1..Len(bs) |-> IF bs[k].task = index
                          THEN [bs[k] EXCEPT !.pos = @ + n] ELSE bs[k]]

\* StreamChunk with a fault: every chunk is written at the start of the
\* file instead of at the file's cursor.
StreamChunkWritesAtStart(i) ==
    /\ tasks[i].st = "stream"
    /\ Len(tasks[i].recv) < MaxChunks
    /\ \E chunk \in {ChunkAt(Len(tasks[i].recv) + 1)}, n \in 0..2 :
        /\ n <= Len(chunk)
        /\ fs' = [fs EXCEPT ![tasks[i].path] = WriteAt(@, 0, SubSeq(chunk, 1, n))]
        /\ IF n = Len(chunk)
           THEN /\ tasks' = [tasks EXCEPT ![i].recv = Append(@, chunk),
                                          ![i].off = @ + n]
                /\ bars' = BarInc(bars, tasks[i].index, n)
           ELSE /\ tasks' = [tasks EXCEPT ![i].recv = Append(@, chunk),
                                          ![i].off = @ + n,
                                          ![i].st = "write_err"]
                /\ UNCHANGED bars
    /\ UNCHANGED mainVars

\* One turn of the while loop on Some(Ok(chunk)): write_all, then the bar
\* advances.  When write_all fails its ? returns, with some first bytes of
\* the chunk written and the bar as it was.
StreamChunk(i) ==
    /\ tasks[i].st = "stream"
    /\ Len(tasks[i].recv) < MaxChunks
    /\ \E chunk \in {ChunkAt(Len(tasks[i].recv) + 1)}, n \in 0..2 :
        /\ n <= Len(chunk)
        /\ fs' = [fs EXCEPT ![tasks[i].path] =
                      WriteAt(@, tasks[i].off, SubSeq(chunk, 1, n))]
        /\ IF n = Len(chunk)
           THEN /\ tasks' = [tasks EXCEPT ![i].recv = Append(@, chunk),
                                          ![i].off = @ + n]
                /\ bars' = BarInc(bars, tasks[i].index, n)
           ELSE /\ tasks' = [tasks EXCEPT ![i].recv = Append(@, chunk),
                                          ![i].off = @ + n,
                                          ![i].st = "write_err"]
                /\ UNCHANGED bars
    /\ UNCHANGED mainVars

\* StreamError with a fault: the partial file is emptied on the error.
StreamErrorRollsBack(i) ==
    /\ tasks[i].st = "stream"
    /\ tasks' = [tasks EXCEPT ![i].st = "stream_err"]
    /\ fs' = [fs EXCEPT ![tasks[i].path] = <<>>]
    /\ UNCHANGED <<mainVars, bars>>

\* The while loop on Some(Err(e)): the ? returns the transport error.
StreamError(i) ==
    /\ tasks[i].st = "stream"
    /\ tasks' = [tasks EXCEPT ![i].st = "stream_err"]
    /\ UNCHANGED <<mainVars, fs, bars>>

\* The stream is over (None): flush, then Ok(()), or the flush's error.
StreamEnd(i) ==
    /\ tasks[i].st = "stream"
    /\ \E ok \in BOOLEAN :
        tasks' = [tasks EXCEPT ![i].st = IF ok THEN "done" ELSE "flush_err"]
    /\ UNCHANGED <<mainVars, fs, bars>>

\* The connection hangs: get(url).await or stream.next().await never
\* resolves.  Neither has a timeout, so the task stays suspended.  Once
\* main has panicked the task is only waiting to be dropped (Abort).
Hang(i) ==
    /\ tasks[i].st \in {"get", "stream"}
    /\ pc \notin PanicStates
    /\ tasks' = [tasks EXCEPT ![i].st = "hung"]
    /\ UNCHANGED <<mainVars, fs, bars>>

\* main has panicked: the runtime is dropped with the unwinding and drops
\* every task that has not ended at the await it stands at.
Abort(i) ==
    /\ pc \in PanicStates
    /\ tasks[i].st \in Running
    /\ tasks' = [tasks EXCEPT ![i].st = "aborted"]
    /\ UNCHANGED <<mainVars, fs, bars>>

\* ------------------------------------------------------ the specification

InitWith(clis) ==
    /\ cli \in clis
    /\ pc = "check_args"
    /\ endpoint = None
    /\ proxy = None
    /\ file_path = None
    /\ save_path = None
    /\ probes = <<>>
    /\ cmds = <<>>
    /\ worktree = <<>>
    /\ lfs_vec = <<>>
    /\ tasks = <<>>
    /\ join_idx = 0
    /\ fs = <<>>
    /\ bars = <<>>

Init == InitWith(DownloadClis)

Next ==
    \/ CheckArgs
    \/ ProbeEndpoint
    \/ ProbeProxy
    \/ CheckGit
    \/ CheckGitLfs
    \/ CheckRepoAuthority
    \/ GitSync
    \/ LfsList
    \/ Spawn
    \/ Join
    \/ Return
    \/ \E i \in 1..Len(tasks) : FileCreate(i)
    \/ \E i \in 1..Len(tasks) : HttpGet(i)
    \/ \E i \in 1..Len(tasks) : StreamChunk(i)
    \/ \E i \in 1..Len(tasks) : StreamError(i)
    \/ \E i \in 1..Len(tasks) : StreamEnd(i)
    \/ \E i \in 1..Len(tasks) : Hang(i)
    \/ \E i \in 1..Len(tasks) : Abort(i)

Spec == Init /\ [][Next]_vars

\* The URL resolver alone: check_args and main up to the fan-out, on every
\* command line of ResolverClis, with no task taking a step.
InitResolver == InitWith(ResolverClis)

NextResolver ==
    \/ CheckArgs
    \/ ProbeEndpoint
    \/ ProbeProxy
    \/ CheckGit
    \/ CheckGitLfs
    \/ CheckRepoAuthority
    \/ GitSync
    \/ LfsList
    \/ Spawn

SpecResolver == InitResolver /\ [][NextResolver]_vars


\* The runs under fair scheduling in which every HTTP exchange ends: no
\* connection hangs, main goes on whenever it can, and the runtime goes on
\* with every task that can take a step.
MainStep ==
    \/ CheckArgs
    \/ ProbeEndpoint
    \/ ProbeProxy
    \/ CheckGit
    \/ CheckGitLfs
    \/ CheckRepoAuthority
    \/ GitSync
    \/ LfsList
    \/ Spawn
    \/ Join
    \/ Return

TaskStep(i) ==
    /\ i \in 1..Len(tasks)
    /\ \/ FileCreate(i)
       \/ HttpGet(i)
       \/ StreamChunk(i)
       \/ StreamError(i)
       \/ StreamEnd(i)
       \/ Abort(i)

NextFair ==
    \/ MainStep
    \/ \E i \in 1..Len(tasks) : TaskStep(i)

SpecFair ==
    /\ Init
    /\ [][NextFair]_vars
    /\ WF_vars(MainStep)
    /\ \A i \in 1..MaxAssets : WF_vars(TaskStep(i))


\* ------------------------------------------------------------- the claims

\* Every spawned task has ended by itself (it was not dropped).
AllTasksEnded == \A i \in 1..Len(tasks) : tasks[i].st \in Terminal

\* The run is over and it ended in or after the join loop.
RunEndedAfterJoin == pc \in {"done", "panic_join"}

\* Another task writes to the destination path of task i.
SharesPath(i) == \E j \in 1..Len(tasks) : j # i /\ tasks[j].path = tasks[i].path

\* No task has failed on the local disk (File::create, write_all, flush):
\* the failures left are the transport's.
NoDiskError ==
    \A i \in 1..Len(tasks) : tasks[i].st \notin {"create_err", "write_err", "flush_err"}

\* Every probe sent before the clone was answered with a 2xx status.
ProbesSucceeded ==
    \A k \in 1..Len(probes) : probes[k].outcome.ok /\ IsSuccess(probes[k].outcome.status)

\* C1: the join loop does not end the run, by returning or otherwise, before
\* every one of the N spawned tasks has reached a terminal state, and it
\* returns only after N awaited completions, also when tasks fail (stated
\* for the runs in which every probe succeeded and the disk does not fail).
C1_RunEndsOnlyAfterAllTasks ==
    (RunEndedAfterJoin /\ ProbesSucceeded /\ NoDiskError) =>
        /\ AllTasksEnded
        /\ (pc = "done" => join_idx = Len(lfs_vec))

\* C2: a failing task does not cancel its siblings: when the run ended on a
\* task's transport failure, no other task was dropped before its own
\* terminal state.
C2_FailureDoesNotCancelSiblings ==
    (pc = "panic_join" /\ ProbesSucceeded /\ NoDiskError) =>
        \A i \in 1..Len(tasks) : tasks[i].st # "aborted"

\* The task ended with a transport error, at the header fetch or mid-stream.
TransferError(t) == t.st \in {"get_err", "stream_err"}

\* C3: when a task ends with a transfer error the run reports failure, and
\* only after all tasks have finished; when no task fails the run reports
\* success.
C3_FailureReportedAfterAllFinish ==
    (RunEndedAfterJoin /\ ProbesSucceeded) =>
        /\ (\E i \in 1..Len(tasks) : TransferError(tasks[i]))
               => (pc = "panic_join" /\ AllTasksEnded)
        /\ (\A i \in 1..Len(tasks) : tasks[i].st \notin Failed) => pc = "done"

\* The task received a status outside 2xx.
GotNonSuccess(t) == t.status # None /\ ~IsSuccess(t.status[1])

\* C4: a task that receives a non-2xx status has created its destination
\* file, has written nothing to it (the file is empty unless another task
\* writes to the same path), has ended with Ok, and is not the task whose
\* failure ended the run.
C4_NonSuccessStatusIsSkipped ==
    \A i \in 1..Len(tasks) :
        GotNonSuccess(tasks[i]) =>
            /\ tasks[i].st = "skipped"
            /\ tasks[i].path \in DOMAIN fs
            /\ tasks[i].off = 0 /\ tasks[i].recv = <<>>
            /\ (~SharesPath(i) => fs[tasks[i].path] = <<>>)
            /\ (pc = "panic_join" => join_idx + 1 # i)

\* C4's case: a run that returned Ok although a task got a non-2xx status
\* while its sibling downloaded a body.
C4_Witness ==
    /\ pc = "done"
    /\ \E i, j \in 1..Len(tasks) :
        /\ GotNonSuccess(tasks[i]) /\ ~SharesPath(i)
        /\ tasks[j].st = "done" /\ tasks[j].off > 0

\* C5: a task whose stream failed after K bytes has failed, and its
\* destination file exists and holds exactly the K bytes of the chunks
\* received before the error (unless another task writes to the same path).
C5_StreamErrorKeepsPartialFile ==
    \A i \in 1..Len(tasks) :
        tasks[i].st = "stream_err" =>
            /\ tasks[i].st \in Failed
            /\ tasks[i].path \in DOMAIN fs
            /\ tasks[i].off = Len(Concat(tasks[i].recv))
            /\ (~SharesPath(i) => fs[tasks[i].path] = Concat(tasks[i].recv))

\* C5's case: a stream that failed after two chunks, the run over.
C5_Witness ==
    /\ pc = "panic_join"
    /\ \E i \in 1..Len(tasks) :
        /\ tasks[i].st = "stream_err" /\ ~SharesPath(i)
        /\ Len(tasks[i].recv) = 2
        /\ fs[tasks[i].path] = ChunkAt(1) \o ChunkAt(2)


\* The text of a base URL input, the default when it is not given.
EndpointText == UnwrapOr(cli.endpoint_url, DEFAULT_ENDPOINT)
ProxyText == UnwrapOr(cli.proxy_url, DEFAULT_PROXY)

\* The command line is the one of the help text's example, with the default
\* bases https://hf-mirror.com/ and https://hg.whl.moe/.
GemmaWithDefaults ==
    /\ cli.repo_id = RepoGemma
    /\ EndpointText = DEFAULT_ENDPOINT
    /\ ProxyText = DEFAULT_PROXY

\* The asset name of the example.
Model00001 == <<"model", "-", "00001.safetensors">>

\* The job of the pointer file model-00001.safetensors is spawned.
ExampleJobs ==
    { i \in 1..Len(tasks) : worktree[i] = [name |-> Model00001, smudged |-> FALSE] }

\* "/google/gemma-2-2b-it/resolve/main/model-00001.safetensors" without its
\* first "/".
ExampleTail ==
    RepoGemma \o <<"/", "resolve", "/", "main", "/">> \o Model00001

\* C6 as the claim states it: for the example, the fetch URL is
\* https://hg.whl.moe/huggingface.co/google/gemma-2-2b-it/resolve/main/model-00001.safetensors.
C6_ExampleUrlHostMarker ==
    GemmaWithDefaults =>
        \A i \in ExampleJobs :
            tasks[i].url = <<"https:", "/", "/", "hg.whl.moe", "/", "huggingface.co", "/">>
                           \o ExampleTail

\* The path of a base URL text that ends in "/": what follows the host,
\* without the "/" at its two ends.
BasePathOf(text) ==
    LET rest == SubSeq(text, 4, Len(text))
        k == Find(rest, "/")
    IN  SubSeq(rest, k + 1, Len(rest) - 1)

\* text with a final "/" when it has none.
Slashed(text) == IF text[Len(text)] = "/" THEN text ELSE Append(text, "/")

\* The pieces check_args cuts the repository identifier into.
RepoParts == Split(Trim(cli.repo_id), "/")

\* The identifier is one "author/name" pair with both parts non-empty, a
\* RepositoryRef.
ValidRepositoryRef ==
    /\ Len(RepoParts) = 2
    /\ RepoParts[1] # <<>>
    /\ RepoParts[2] # <<>>

\* The canonical URL's path without its first and last "/": the path of
\* the endpoint base, then "author/item".
RepositoryPath ==
    LET base == BasePathOf(Slashed(EndpointText))
    IN  (IF base = <<>> THEN <<>> ELSE Append(base, "/")) \o Trim(cli.repo_id)

\* C6, amended: for the example the fetch URL is
\* https://hg.whl.moe/https://huggingface.co/google/gemma-2-2b-it/resolve/main/model-00001.safetensors,
\* and every job's URL is the proxy base, the origin marker
\* "https://huggingface.co/", the repository path, "/resolve/main/" and the
\* asset name read from the job's line, for every RepositoryRef.
C6_FetchUrlShape ==
    /\ GemmaWithDefaults =>
        \A i \in ExampleJobs :
            tasks[i].url = <<"https:", "/", "/", "hg.whl.moe", "/",
                             "https:", "/", "/", "huggingface.co", "/">>
                           \o ExampleTail
    /\ \A i \in 1..Len(tasks) :
        ValidRepositoryRef =>
        tasks[i].url = Slashed(ProxyText) \o <<"https:", "/", "/", "huggingface.co", "/">>
                       \o RepositoryPath \o <<"/", "resolve", "/", "main", "/">>
                       \o LineFileName(lfs_vec[i])[1]

\* C6's case: the example's job is spawned.
C6_Witness ==
    /\ GemmaWithDefaults
    /\ cli.endpoint_url = None /\ cli.proxy_url = None
    /\ ExampleJobs # {}


\* The same base text with its final "/" removed when it has one and
\* appended when it has none.
SlashToggled(text) ==
    IF text[Len(text)] = "/" THEN SubSeq(text, 1, Len(text) - 1) ELSE Append(text, "/")

\* The command lines that differ from the run's in the trailing "/" of one
\* base or of both.
SlashPartners ==
    { [cli EXCEPT !.endpoint_url = e, !.proxy_url = p] :
        e \in {cli.endpoint_url, Some(SlashToggled(EndpointText))},
        p \in {cli.proxy_url, Some(SlashToggled(ProxyText))} }

\* The fetch URL of an asset under a command line, None when check_args
\* rejects the command line.
ResolvedUrl(c, file_name) ==
    LET r == CheckArgsParse(c)
    IN  IF r.kind = "ok" THEN FetchUrl(r.proxy_url, r.endpoint_url, file_name) ELSE None

\* C7: the fetch URL does not depend on the trailing "/" of either base: a
\* command line that differs from the run's only there is accepted exactly
\* when the run's is, and gives every job the URL the run gave it.
C7_UrlIndependentOfTrailingSlash ==
    \A c \in SlashPartners :
        /\ pc # "check_args" => (CheckArgsParse(c).kind = "ok" <=> endpoint # None)
        /\ \A i \in 1..Len(tasks) :
            ResolvedUrl(c, LineFileName(lfs_vec[i])[1]) = Some(tasks[i].url)

\* C7's case: jobs are spawned under two bases given without a trailing "/"
\* that have paths of their own.
C7_Witness ==
    /\ cli.endpoint_url = Some(MirrorWithPath)
    /\ cli.proxy_url = Some(ProxyWithPath)
    /\ Len(tasks) = 2

\* The tasks that received a 2xx status.
GotSuccess == { i \in 1..Len(tasks) :
                  tasks[i].status # None /\ IsSuccess(tasks[i].status[1]) }

\* C8 as the claim states it, for the runs that return Ok: when the run is
\* over, N displays are registered for N file names, whatever the tasks'
\* outcomes (downloaded or skipped).
C8_OneDisplayPerJob ==
    (pc = "done" /\ ProbesSucceeded) => Len(bars) = Len(lfs_vec)

\* C8, amended: the registry holds exactly one display for every task that
\* received a 2xx status and none for any other task, so at most N for N
\* file names, N when every task received a 2xx status; a display stays
\* once its task has ended.
C8_OneDisplayPerSuccessStatus ==
    /\ Len(bars) = Cardinality(GotSuccess)
    /\ Len(bars) <= Len(lfs_vec)
    /\ \A i \in 1..Len(tasks) :
        Cardinality({k \in 1..Len(bars) : bars[k].task = tasks[i].index})
            = IF i \in GotSuccess THEN 1 ELSE 0
    /\ (pc = "done" /\ Cardinality(GotSuccess) = Len(lfs_vec))
           => Len(bars) = Len(lfs_vec)

\* C8's case: the run returned with two tasks, one skipped on its status
\* and one downloaded, and one display.
C8_Witness ==
    /\ pc = "done"
    /\ Len(tasks) = 2
    /\ \E i \in 1..Len(tasks) : tasks[i].st = "skipped"
    /\ Len(bars) = 1

\* The configurations the run must reject: a base whose text does not
\* start with a scheme, or an identifier that holds no "/".
InvalidConfiguration ==
    \/ EndpointText[1] \notin Schemes
    \/ ProxyText[1] \notin Schemes
    \/ Find(cli.repo_id, "/") = 0

\* C9: under an invalid configuration the run ends in check_args, by the
\* usage error or the returned error, with no probe sent, no external
\* command run and no task spawned.
C9_InvalidConfigurationAbortsEarly ==
    InvalidConfiguration =>
        /\ pc \in {"check_args", "exit_usage", "exit_err"}
        /\ probes = <<>>
        /\ cmds = <<>>
        /\ tasks = <<>>

\* C9's case: the run with the proxy "not a url" has ended with the usage
\* error.
C9_Witness ==
    /\ cli.proxy_url = Some(NotAUrl)
    /\ cli.repo_id = RepoGemma /\ cli.endpoint_url = None
    /\ pc = "exit_usage"

\* C10: once main is in the join loop or past it, one task per line of the
\* listing has been spawned, with the indices 0..N-1 in order; no handle is
\* awaited before that, and a spawn never waits for a task.
C10_AllSpawnedBeforeFirstAwait ==
    /\ \A i \in 1..Len(tasks) : tasks[i].index = i - 1
    /\ Len(tasks) <= Len(lfs_vec)
    /\ (pc \in {"join", "done", "panic_join"} \/ join_idx > 0)
           => Len(tasks) = Len(lfs_vec)
    /\ pc = "spawn" => ENABLED Spawn

\* C10's case: main stands at the first await with two tasks spawned and
\* none of them ended.
C10_Witness ==
    /\ pc = "join"
    /\ join_idx = 0
    /\ Len(tasks) = 2
    /\ \A i \in 1..Len(tasks) : tasks[i].st \in Running

\* The task holds its destination file open for writing: File::create
\* returned it and download_files has not returned.
HasFileOpen(t) == t.st \in {"get", "stream", "hung"}

\* C11: the destination paths of a run are unique: no two tasks that run at
\* the same time hold the same destination path open for writing, whatever
\* listing main accepted (stated for the runs in which every probe
\* succeeded).
C11_DestinationPathsUnique ==
    \A i, j \in 1..Len(tasks) :
        (ProbesSucceeded /\ i # j /\ HasFileOpen(tasks[i]) /\ HasFileOpen(tasks[j]))
            => tasks[i].path # tasks[j].path

\* a is a prefix of b.
IsPrefix(a, b) == Len(a) <= Len(b) /\ a = SubSeq(b, 1, Len(a))

\* File::create has returned the task its file (a task dropped at get, with
\* no status yet, is left out).
CreatedFile(t) ==
    /\ t.st \notin {"create", "create_err"}
    /\ (t.st = "aborted" => t.status # None)

\* C12: at every point the destination file of a task holds a prefix of the
\* concatenation of the chunks the task received, in the order received,
\* and exactly the bytes the task has written; it holds the whole
\* concatenation whenever no write failed, so after a successful task
\* (stated for a task that is the only one writing to its path).
C12_FileIsPrefixOfReceived ==
    \A i \in 1..Len(tasks) :
        (CreatedFile(tasks[i]) /\ ~SharesPath(i)) =>
            /\ tasks[i].path \in DOMAIN fs
            /\ IsPrefix(fs[tasks[i].path], Concat(tasks[i].recv))
            /\ Len(fs[tasks[i].path]) = tasks[i].off
            /\ (tasks[i].st \in {"get", "stream", "done", "flush_err", "stream_err"}
                    => fs[tasks[i].path] = Concat(tasks[i].recv))

\* C12's case: a run that returned Ok with a file made of two chunks, the
\* shorter one first, while a write of the sibling stopped inside a chunk.
C12_Witness ==
    \E i, j \in 1..Len(tasks) :
        /\ ~SharesPath(i)
        /\ tasks[i].st = "done"
        /\ tasks[i].recv = <<ChunkAt(1), ChunkAt(2)>>
        /\ fs[tasks[i].path] = ChunkAt(1) \o ChunkAt(2)
        /\ tasks[j].st = "write_err"
        /\ Len(fs[tasks[j].path]) < Len(Concat(tasks[j].recv))

\* The probes answered with a status outside 2xx.
FailedProbes ==
    { k \in 1..Len(probes) : probes[k].outcome.ok /\ ~IsSuccess(probes[k].outcome.status) }

\* git clone / git pull has been invoked.
GitInvoked == \E k \in 1..Len(cmds) : cmds[k] = <<"git">>

\* C13: a probe sent before the clone (endpoint, proxy, info/refs) that is
\* answered with a non-2xx status is fatal: git clone / git pull is never
\* invoked after it and no download task is spawned.
C13_FailedProbeIsFatal ==
    FailedProbes # {} => (~GitInvoked /\ tasks = <<>>)

\* The two health probes of check_args are fatal: after a non-2xx answer to
\* the first or the second probe the process has exited.
HealthProbeFailureIsFatal ==
    (FailedProbes \cap {1, 2} # {}) => (pc = "exit_usage" /\ cmds = <<>> /\ tasks = <<>>)

\* Some task is suspended on a connection that never answers.
SomeTaskHung == \E i \in 1..Len(tasks) : tasks[i].st = "hung"

\* C14: there is no timeout and no cancellation: while a task is hung the
\* run does not end, whatever the other tasks did (stated for the runs in
\* which every probe succeeded, every line of the listing was spawned and
\* the disk does not fail).
C14_HungTaskHangsRun ==
    (SomeTaskHung /\ ProbesSucceeded /\ NoDiskError /\ Len(tasks) = Len(lfs_vec))
        => pc \notin ExitStates

\* main does not return Ok while a task is hung or was dropped.
NoReturnWhileHung ==
    pc = "done" => \A i \in 1..Len(tasks) : tasks[i].st \in Succeeded

\* A task has failed or was dropped, or the run has ended in failure.
SomeFailure ==
    \/ \E j \in 1..Len(tasks) : tasks[j].st \in Failed \cup {"aborted"}
    \/ pc = "panic_join"

\* C15: a failing task leaves its siblings' files untouched: in every step
\* that fails a task, follows a failure or ends the run in failure, the file
\* of each task that completed successfully stays in place with its complete
\* content (stated for a completed task that is the only one writing to its
\* path).
C15_FailureLeavesSiblingFiles ==
    [][ SomeFailure' =>
            \A i \in 1..Len(tasks) :
                (tasks[i].st = "done" /\ ~SharesPath(i)) =>
                    /\ tasks[i].path \in DOMAIN fs'
                    /\ fs'[tasks[i].path] = fs[tasks[i].path]
                    /\ fs'[tasks[i].path] = Concat(tasks[i].recv) ]_vars

\* C15's case: the first task completed a two-chunk file and was awaited,
\* then the second failed and ended the run; the file is there, complete.
C15_Witness ==
    /\ pc = "panic_join"
    /\ Len(tasks) = 2
    /\ join_idx = 1
    /\ tasks[1].st = "done" /\ ~SharesPath(1)
    /\ tasks[2].st \in Failed
    /\ fs[tasks[1].path] = ChunkAt(1) \o ChunkAt(2)

\* C16: an identifier check_args accepts has a non-empty author and a
\* non-empty name and is exactly one "author/name" pair; any other
\* identifier is rejected before a probe is sent.
C16_AcceptedRepoIdHasBothParts ==
    probes # <<>> => ValidRepositoryRef

\* An identifier without a "/" is rejected before any probe.
NoSlashIsRejected ==
    (Len(RepoParts) = 1 /\ pc # "check_args") => (pc = "exit_usage" /\ probes = <<>>)

\* The chunks of a task that write_all wrote whole: all the chunks received,
\* but the last one when the write stopped inside it.
WrittenChunks(t) ==
    IF t.st = "write_err" THEN SubSeq(t.recv, 1, Len(t.recv) - 1) ELSE t.recv

\* C17: a task's display stands at the summed lengths of the chunks written
\* so far, so never past the bytes the task wrote to its file; when the task
\* returns Ok it stands at the sum of all chunk lengths, the length of the
\* file (of a task that is the only one writing to its path), whatever
\* total the display was created with.
C17_DisplayTracksBytesWritten ==
    \A k \in 1..Len(bars) :
        LET t == tasks[bars[k].task + 1]
        IN  /\ bars[k].pos = Len(Concat(WrittenChunks(t)))
            /\ bars[k].pos <= t.off
            /\ t.st = "done" =>
                /\ bars[k].pos = t.off
                /\ bars[k].pos = Len(Concat(t.recv))
                /\ (~SharesPath(bars[k].task + 1) => bars[k].pos = Len(fs[t.path]))

\* C17's case: two completed tasks, one display created with the default
\* total and one with the header's, each standing at its file's length,
\* which is not the total of the second.
C17_Witness ==
    \E k1, k2 \in 1..Len(bars) :
        LET t1 == tasks[bars[k1].task + 1]
            t2 == tasks[bars[k2].task + 1]
        IN  /\ t1.st = "done" /\ t2.st = "done"
            /\ t1.path # t2.path
            /\ bars[k1].len = DefaultTotalBytes /\ bars[k1].pos = 3
            /\ Len(fs[t1.path]) = 3
            /\ bars[k2].len = 3 /\ bars[k2].pos = 1
            /\ Len(fs[t2.path]) = 1

\* The bytes the files of the worktree hold before any task runs.
WorktreeBytes ==
    {PointerBytes[k] : k \in 1..Len(PointerBytes)} \cup {ObjectBytes[k] : k \in 1..Len(ObjectBytes)}

\* The files as git left them, before the fan-out.
FilesBefore == WorktreeFiles(save_path[1], worktree)

\* C18: the destination file is created or truncated before the GET is
\* issued: a task that stands at its GET, has a response or has ended after
\* File::create (Ok, skipped, transport error at the header fetch or in the
\* stream, write or flush error) has a destination file that exists and
\* holds no byte of what was there before; the file is empty when nothing
\* was downloaded and the task is the only one writing to its path.
C18_FileTruncatedBeforeGet ==
    \A i \in 1..Len(tasks) :
        CreatedFile(tasks[i]) =>
            /\ tasks[i].path \in DOMAIN fs
            /\ \A k \in 1..Len(fs[tasks[i].path]) : fs[tasks[i].path][k] \notin WorktreeBytes
            /\ (tasks[i].off = 0 /\ ~SharesPath(i)) => fs[tasks[i].path] = <<>>

\* C18's case: the header fetch of a task failed with a transport error;
\* its destination, a pointer file of the clone, is left empty.
C18_Witness ==
    \E i \in 1..Len(tasks) :
        /\ tasks[i].st = "get_err"
        /\ tasks[i].path \in DOMAIN FilesBefore
        /\ FilesBefore[tasks[i].path] = PointerBytes
        /\ fs[tasks[i].path] = <<>>

\* Task i was spawned and has ended: in a terminal state of its own, or
\* dropped by the runtime after main's panic.
TaskEnded(i) == i <= Len(tasks) /\ tasks[i].st \notin Running

\* C19: under fair scheduling, with every HTTP exchange ending, the run
\* terminates, every spawned task ends, and the join loop never stays
\* blocked: it is left by main's return or by its panic on a failed handle.
C19_RunTerminates ==
    /\ <>(pc \in ExitStates)
    /\ \A i \in 1..MaxAssets : (i <= Len(tasks)) ~> TaskEnded(i)
    /\ (pc = "join") ~> (pc \in {"done", "panic_join"})

\* C19's case: every line of the listing was spawned, the tasks ended with
\* different outcomes, the join loop awaited them all and main returned.
C19_Witness ==
    /\ pc = "done"
    /\ Len(tasks) = MaxAssets
    /\ join_idx = MaxAssets
    /\ tasks[1].st = "skipped"
    /\ tasks[MaxAssets].st = "done"

====
